---------------------------- MODULE Spec2Model ----------------------------
(***************************************************************************)
(* A model of src/lib/generateAppModel.ts: generateSAM builds the name     *)
(* mapping and the SAM template for a set of lambdas, and returns a        *)
(* session object with start, stop, sendRequest and sendApiGwRequest.      *)
(*                                                                         *)
(* Strings that the code only stores or concatenates are TLA+ strings.     *)
(* Response bodies, which the code decodes, are sequences of character     *)
(* codes. An optional value (a field that may be undefined) is a sequence  *)
(* of length 0 or 1.                                                       *)
(***************************************************************************)
EXTENDS Integers, Sequences, FiniteSets, TLC

VARIABLES
    lambdas,      \* Object.entries(lambdas): a sequence of [key, lambda]
    cliOptions,   \* the cliOptions argument: [port, host, region], each optional
    genPc,        \* generateSAM: "loop", "ready" (returned), "failed" (rejected)
    idx,          \* number of entries of lambdas the loop has gone through
    mapping,      \* the Map returned as SAM.mapping
    Resources,    \* SAMTemplate.Resources
    workdir,      \* the temporary directory: [exists, dirs, template, writes]
    port, host, region,   \* the closure variables of lines 138-141, optional
    SAM,          \* the SAMLocal handle: the process it stands for, optional
    client,       \* the AWSLambda client: [endpoint, region], optional
    procs,        \* the emulator processes that are running
    launched,     \* the number of emulator processes launched so far
    startCall,    \* the start() call: [pc, n, pre, result]
    stopCall,     \* the stop() call: [pc, n, target, result, done]
    calls         \* the invocations: a sequence of call records

genVars  == <<lambdas, cliOptions, genPc, idx, mapping, Resources>>
sessVars == <<port, host, region, SAM, client>>
procVars == <<procs, launched>>
lifeVars == <<startCall, stopCall>>
vars == <<lambdas, cliOptions, genPc, idx, mapping, Resources, workdir,
          port, host, region, SAM, client, procs, launched,
          startCall, stopCall, calls>>

----------------------------------------------------------------------------
(* Bounds of the model *)

MaxLambdas == 2     \* at most this many entries in the lambdas argument
NumNames   == 2     \* size of the namespace the identifier generator draws from
MaxRoutes  == 2     \* at most this many entries in a routes mapping

(* Optional values *)
None == <<>>
Some(v) == <<v>>
IsDefined(o) == o # None
Val(o) == o[1]

(* JavaScript truthiness of an optional string or number *)
TruthyStr(o) == IsDefined(o) /\ Val(o) # ""
TruthyNum(o) == IsDefined(o) /\ Val(o) # 0

(* a ?? d *)
Coalesce(o, d) == IF IsDefined(o) THEN Val(o) ELSE d

Range(f) == {f[x] : x \in DOMAIN f}
EmptyMap == [x \in {} |-> ""]
Put(m, k, v) == [x \in (DOMAIN m) \cup {k} |-> IF x = k THEN v ELSE m[x]]

----------------------------------------------------------------------------
(* Inputs *)

KeyNames == <<"greet", "api", "img", "auth">>
Keys == {KeyNames[i] : i \in 1..MaxLambdas}

IdNames == <<"fn-abc123", "fn-def456", "fn-0a1b2c", "fn-9z8y7x">>
(* The values randomServerlessFunctionName() may return. *)
randomServerlessFunctionName == {IdNames[i] : i \in 1..NumNames}

RouteKeys  == <<"list", "item", "admin">>
RoutePaths == <<"/items", "/items/{id}", "/admin">>
(* The routes mapping with the first n named routes. *)
RoutesOf(n) == [rk \in {RouteKeys[i] : i \in 1..n} |->
                  RoutePaths[CHOOSE i \in 1..n : RouteKeys[i] = rk]]

Lambda(h, r, rs, m, ms) ==
    [filename |-> "fn.zip", handler |-> h, runtime |-> "nodejs18.x",
     route |-> r, routes |-> rs, method |-> m, memorySize |-> ms,
     environment |-> [STAGE |-> "test"]]

(* The function descriptions the model draws from: a single route (also the
   empty one), a routes mapping of every size up to MaxRoutes, both, neither. *)
ConfigLambda ==
    {Lambda("index.handler", Some("/hello"), None, Some("GET"), None),
     Lambda("app.main", Some("/hello"), None, None, Some(256)),
     Lambda("index.handler", Some(""), None, None, None),
     Lambda("index.handler", Some(""), Some(RoutesOf(1)), None, None),
     Lambda("index.handler", Some("/hello"), Some(RoutesOf(MaxRoutes)), None, None),
     Lambda("index.handler", None, None, Some("POST"), Some(512))}
    \cup {Lambda("app.main", None, Some(RoutesOf(n)), Some("POST"), None) : n \in 0..MaxRoutes}

Entry(k, l) == [key |-> k, lambda |-> l]

(* Sequences of entries with pairwise different keys, of length 1..MaxLambdas *)
RECURSIVE EntriesOver(_, _)
EntriesOver(ks, n) ==
    IF n = 0 THEN {<<>>}
    ELSE {<<>>} \cup
         UNION {{<<Entry(k, l)>> \o rest : l \in ConfigLambda,
                                          rest \in EntriesOver(ks \ {k}, n - 1)} : k \in ks}

LambdaInputs == EntriesOver(Keys, MaxLambdas) \ {<<>>}

----------------------------------------------------------------------------
(* generateSAM, lines 61-135 *)

MaxTimeoutMs == 29000
MaxTimeoutS  == 29
DefaultMemorySize == 128

(* ApiEvent with the event's timeout given in seconds *)
ApiEvent_InSeconds(path, lambda) ==
    [Type |-> "HttpApi",
     Properties |-> [Path |-> path,
                     Method |-> Coalesce(lambda.method, "any"),
                     TimeoutInMillis |-> MaxTimeoutS,
                     PayloadFormatVersion |-> "2.0"]]

(* lines 97-105 and 108-116: one HttpApi event *)
ApiEvent(path, lambda) ==
    [Type |-> "HttpApi",
     Properties |-> [Path |-> path,
                     Method |-> Coalesce(lambda.method, "any"),
                     TimeoutInMillis |-> MaxTimeoutMs,
                     PayloadFormatVersion |-> "2.0"]]

(* lines 94-118: the Events of one lambda *)
EventsOf(lambda) ==
    IF TruthyStr(lambda.route)
    THEN [n \in {"Api"} |-> ApiEvent(Val(lambda.route), lambda)]
    ELSE IF IsDefined(lambda.routes)
         THEN [rk \in DOMAIN Val(lambda.routes) |->
                 ApiEvent(Val(lambda.routes)[rk], lambda)]
         ELSE [n \in {} |-> ApiEvent("", lambda)]

(* lines 120-131: the resource written for one lambda *)
ResourceOf(functionName, key, lambda) ==
    [Type |-> "AWS::Serverless::Function",
     Properties |-> [Handler |-> functionName \o "/" \o lambda.handler,
                     Description |-> key,
                     Runtime |-> lambda.runtime,
                     MemorySize |-> Coalesce(lambda.memorySize, DefaultMemorySize),
                     Timeout |-> MaxTimeoutS,
                     Environment |-> [Variables |-> lambda.environment],
                     Events |-> EventsOf(lambda)]]

Generated == genPc = "ready"

(* line 88: the key under which a lambda is entered in the mapping *)
MappingKey(key) == "/" \o key

UnstartedSession ==
    /\ port = None /\ host = None /\ region = None
    /\ SAM = None /\ client = None
    /\ procs = {} /\ launched = 0
    /\ startCall = [pc |-> "idle", n |-> 0, pre |-> None, result |-> "none"]
    /\ stopCall = [pc |-> "idle", n |-> 0, target |-> None, result |-> "none", done |-> 0]
    /\ calls = <<>>

(* lines 68-83: the state when the loop is entered *)
GenStart ==
    /\ genPc = "loop"
    /\ idx = 0
    /\ mapping = EmptyMap
    /\ Resources = EmptyMap
    /\ workdir = [exists |-> TRUE, dirs |-> {}, template |-> None, writes |-> 0]
    /\ UnstartedSession

(* lines 86-132: one turn of the loop, the archive unpacked *)
UnpackLambda ==
    /\ genPc = "loop"
    /\ idx < Len(lambdas)
    /\ \E functionName \in randomServerlessFunctionName :
         LET key == lambdas[idx + 1].key
             lambda == lambdas[idx + 1].lambda
         IN /\ mapping' = Put(mapping, MappingKey(key), functionName)
            /\ workdir' = [workdir EXCEPT !.dirs = @ \cup {functionName}]
            /\ Resources' = Put(Resources, functionName,
                                ResourceOf(functionName, key, lambda))
    /\ idx' = idx + 1
    /\ UNCHANGED <<lambdas, cliOptions, genPc, sessVars, procVars, lifeVars, calls>>

(* lines 87-92: unzipToLocation rejects, and generateSAM with it *)
UnpackFails ==
    /\ genPc = "loop"
    /\ idx < Len(lambdas)
    /\ \E functionName \in randomServerlessFunctionName :
         mapping' = Put(mapping, MappingKey(lambdas[idx + 1].key), functionName)
    /\ genPc' = "failed"
    /\ UNCHANGED <<lambdas, cliOptions, idx, Resources, workdir,
                   sessVars, procVars, lifeVars, calls>>

(* lines 134-135 and 210-216: the template is written, the session returned *)
WriteTemplate ==
    /\ genPc = "loop"
    /\ idx = Len(lambdas)
    /\ workdir' = [workdir EXCEPT !.template = Some(Resources), !.writes = @ + 1]
    /\ genPc' = "ready"
    /\ UNCHANGED <<lambdas, cliOptions, idx, mapping, Resources,
                   sessVars, procVars, lifeVars, calls>>

InitGen ==
    /\ lambdas \in LambdaInputs
    /\ cliOptions = [port |-> None, host |-> None, region |-> None]
    /\ GenStart

NextGen == UnpackLambda \/ UnpackFails \/ WriteTemplate

SpecGen == InitGen /\ [][NextGen]_vars

----------------------------------------------------------------------------
(* The session: start and stop, lines 137-161 *)

MaxStarts == 2      \* at most this many calls of start()
MaxStops  == 2      \* at most this many calls of stop()
NumPorts  == 2      \* number of ports getPort() may find free

NoOptions == [port |-> None, host |-> None, region |-> None]
(* The cliOptions the model draws from: none, all given, all given but falsy *)
CliOptions ==
    {NoOptions,
     [port |-> Some(3000), host |-> Some("localhost"), region |-> Some("eu-west-1")],
     [port |-> Some(0), host |-> Some(""), region |-> Some("")]}

FreePorts == {49151 + i : i \in 1..NumPorts}

(* line 146: `http://${host}:${port}` *)
Endpoint(h, p) == "http://" \o h \o ":" \o ToString(p)

Session == [port |-> port, host |-> host, region |-> region, SAM |-> SAM,
            client |-> client, launched |-> launched]

LifecycleIdle == startCall.pc = "idle" /\ stopCall.pc = "idle"

(* StartResolved with the client constructed before the emulator is launched *)
StartResolved_ClientFirst(p) ==
    /\ port' = Some(p)
    /\ host' = Some(IF TruthyStr(cliOptions.host) THEN Val(cliOptions.host) ELSE "127.0.0.1")
    /\ region' = Some(IF TruthyStr(cliOptions.region) THEN Val(cliOptions.region) ELSE "local")
    /\ client' = Some([endpoint |-> Endpoint(host'[1], p), region |-> region'[1]])
    /\ UNCHANGED SAM

(* lines 144-148, up to the call of createSAMLocal: port, host and region
   are assigned; SAM and client are not yet *)
StartResolved(p) ==
    /\ port' = Some(p)
    /\ host' = Some(IF TruthyStr(cliOptions.host) THEN Val(cliOptions.host) ELSE "127.0.0.1")
    /\ region' = Some(IF TruthyStr(cliOptions.region) THEN Val(cliOptions.region) ELSE "local")
    /\ UNCHANGED <<SAM, client>>

(* line 143-144: start() is called; with a truthy cliOptions.port it runs on
   to the await of line 148, otherwise it awaits getPort(). Calls of start
   and stop are issued one after another. *)
start_call(limit) ==
    /\ Generated
    /\ LifecycleIdle
    /\ startCall.n < limit
    /\ IF TruthyNum(cliOptions.port)
       THEN /\ StartResolved(Val(cliOptions.port))
            /\ startCall' = [pc |-> "launch", n |-> startCall.n + 1,
                             pre |-> Some(Session), result |-> "pending"]
       ELSE /\ startCall' = [pc |-> "getPort", n |-> startCall.n + 1,
                             pre |-> Some(Session), result |-> "pending"]
            /\ UNCHANGED sessVars
    /\ UNCHANGED <<genVars, workdir, procVars, stopCall, calls>>

(* line 144: getPort() resolves with a port no running process listens on *)
getPort_resolves ==
    /\ startCall.pc = "getPort"
    /\ \E p \in FreePorts :
         /\ \A pr \in procs : pr.port # p
         /\ StartResolved(p)
    /\ startCall' = [startCall EXCEPT !.pc = "launch"]
    /\ UNCHANGED <<genVars, workdir, procVars, stopCall, calls>>

(* line 144: getPort() rejects, and start() with it *)
getPort_rejects ==
    /\ startCall.pc = "getPort"
    /\ startCall' = [startCall EXCEPT !.pc = "idle", !.result = "getPortFailed"]
    /\ UNCHANGED <<genVars, workdir, sessVars, procVars, stopCall, calls>>

(* lines 148-155: createSAMLocal resolves with the handle of a running
   emulator, rooted at the working directory and listening on host:port;
   the client is constructed and the endpoint returned.  An emulator comes
   up only in a directory that exists and on a port no other one holds. *)
createSAMLocal_resolves ==
    /\ startCall.pc = "launch"
    /\ workdir.exists
    /\ \A pr \in procs : pr.port # Val(port)
    /\ launched' = launched + 1
    /\ procs' = procs \cup {[pid |-> launched + 1, host |-> Val(host), port |-> Val(port)]}
    /\ SAM' = Some(launched + 1)
    /\ client' = Some([endpoint |-> Endpoint(Val(host), Val(port)), region |-> Val(region)])
    /\ startCall' = [startCall EXCEPT !.pc = "idle", !.result = "ok"]
    /\ UNCHANGED <<genVars, workdir, port, host, region, stopCall, calls>>

(* line 148: createSAMLocal rejects (the emulator does not come up), and
   start() with it *)
createSAMLocal_rejects ==
    /\ startCall.pc = "launch"
    /\ startCall' = [startCall EXCEPT !.pc = "idle", !.result = "launchFailed"]
    /\ UNCHANGED <<genVars, workdir, sessVars, procVars, stopCall, calls>>

(* stop_call without the kill: stop() goes on to remove the directory *)
stop_call_NoKill(limit) ==
    /\ Generated
    /\ LifecycleIdle
    /\ stopCall.n < limit
    /\ stopCall' = [stopCall EXCEPT !.pc = "remove", !.n = @ + 1,
                                    !.target = SAM, !.result = "pending"]
    /\ UNCHANGED <<genVars, workdir, sessVars, procVars, startCall, calls>>

(* line 159: stop() is called; SAM.kill() throws when SAM is undefined *)
stop_call(limit) ==
    /\ Generated
    /\ LifecycleIdle
    /\ stopCall.n < limit
    /\ stopCall' = IF IsDefined(SAM)
                   THEN [stopCall EXCEPT !.pc = "kill", !.n = @ + 1,
                                         !.target = SAM, !.result = "pending"]
                   ELSE [stopCall EXCEPT !.n = @ + 1, !.target = None,
                                         !.result = "failed"]
    /\ UNCHANGED <<genVars, workdir, sessVars, procVars, startCall, calls>>

(* line 159: SAM.kill() resolves: the process of the handle has exited *)
SAM_kill_resolves ==
    /\ stopCall.pc = "kill"
    /\ procs' = {pr \in procs : pr.pid # Val(stopCall.target)}
    /\ stopCall' = [stopCall EXCEPT !.pc = "remove"]
    /\ UNCHANGED <<genVars, workdir, sessVars, launched, startCall, calls>>

(* line 159: SAM.kill() rejects, and stop() with it *)
SAM_kill_rejects ==
    /\ stopCall.pc = "kill"
    /\ stopCall' = [stopCall EXCEPT !.pc = "idle", !.result = "failed"]
    /\ UNCHANGED <<genVars, workdir, sessVars, procVars, startCall, calls>>

(* stop_remove without the await of the kill *)
stop_remove_NoAwait ==
    /\ stopCall.pc \in {"kill", "remove"}
    /\ workdir' = [workdir EXCEPT !.exists = FALSE, !.dirs = {}, !.template = None]
    /\ stopCall' = [stopCall EXCEPT !.pc = "idle", !.result = "ok", !.done = @ + 1]
    /\ UNCHANGED <<genVars, sessVars, procVars, startCall, calls>>

(* stop_remove that also clears the mapping *)
stop_remove_ClearsMapping ==
    /\ stopCall.pc = "remove"
    /\ workdir' = [workdir EXCEPT !.exists = FALSE, !.dirs = {}, !.template = None]
    /\ stopCall' = [stopCall EXCEPT !.pc = "idle", !.result = "ok", !.done = @ + 1]
    /\ mapping' = EmptyMap
    /\ UNCHANGED <<lambdas, cliOptions, genPc, idx, Resources,
                   sessVars, procVars, startCall, calls>>

(* line 160: after the await, the working directory is removed with all it
   holds, and stop() returns *)
stop_remove ==
    /\ stopCall.pc = "remove"
    /\ workdir' = [workdir EXCEPT !.exists = FALSE, !.dirs = {}, !.template = None]
    /\ stopCall' = [stopCall EXCEPT !.pc = "idle", !.result = "ok", !.done = @ + 1]
    /\ UNCHANGED <<genVars, sessVars, procVars, startCall, calls>>

(* line 160: removeCallback throws (the directory cannot be removed) *)
removeCallback_throws ==
    /\ stopCall.pc = "remove"
    /\ workdir.exists
    /\ stopCall' = [stopCall EXCEPT !.pc = "idle", !.result = "failed"]
    /\ UNCHANGED <<genVars, workdir, sessVars, procVars, startCall, calls>>

----------------------------------------------------------------------------
(* The response envelope and its decoding, lines 180-200.  A body is a
   sequence of character codes; the emulator's texts hold codes below 2048,
   which UTF-8 writes in one or two bytes. *)

(* The value of a base64 character, -1 for any other character *)
B64Value(c) ==
    IF c >= 65 /\ c <= 90 THEN c - 65
    ELSE IF c >= 97 /\ c <= 122 THEN c - 71
    ELSE IF c >= 48 /\ c <= 57 THEN c + 4
    ELSE IF c = 43 \/ c = 45 THEN 62
    ELSE IF c = 47 \/ c = 95 THEN 63
    ELSE -1

B64Char(v) ==
    IF v < 26 THEN v + 65
    ELSE IF v < 52 THEN v + 71
    ELSE IF v < 62 THEN v - 4
    ELSE IF v = 62 THEN 43 ELSE 47

Pow2(n) == IF n = 0 THEN 1 ELSE IF n = 2 THEN 4 ELSE IF n = 4 THEN 16
           ELSE IF n = 6 THEN 64 ELSE IF n = 8 THEN 256 ELSE 1024

(* The part of s before its first "=" *)
BeforePadding(s) ==
    IF \E i \in 1..Len(s) : s[i] = 61
    THEN SubSeq(s, 1, (CHOOSE i \in 1..Len(s) : s[i] = 61 /\ \A k \in 1..(i - 1) : s[k] # 61) - 1)
    ELSE s

IsB64(c) == B64Value(c) >= 0

(* Buffer.from(s, 'base64'): characters that are not base64 are skipped,
   decoding stops at the first "=", every full 8 bits give a byte *)
Base64Decode(s) ==
    LET chars == SelectSeq(BeforePadding(s), IsB64)
        n == Len(chars)
        Sextet(q) == IF q <= n THEN B64Value(chars[q]) ELSE 0
    IN [j \in 1..((n * 6) \div 8) |->
          LET b == 8 * (j - 1)
              q == (b \div 6) + 1
              r == b % 6
          IN ((Sextet(q) * 64 + Sextet(q + 1)) \div Pow2(4 - r)) % 256]

(* The base64 text of a sequence of bytes, padded with "=" to a multiple of 4 *)
Base64Encode(bytes) ==
    LET n == Len(bytes)
        Byte(q) == IF q <= n THEN bytes[q] ELSE 0
        data == ((8 * n) + 5) \div 6
    IN [k \in 1..(4 * ((n + 2) \div 3)) |->
          IF k > data THEN 61
          ELSE LET b == 6 * (k - 1)
                   q == (b \div 8) + 1
                   r == b % 8
               IN B64Char(((Byte(q) * 256 + Byte(q + 1)) \div Pow2(10 - r)) % 64)]

RECURSIVE Utf8Encode(_)
Utf8Encode(text) ==
    IF text = <<>> THEN <<>>
    ELSE LET c == Head(text)
         IN (IF c < 128 THEN <<c>> ELSE <<192 + (c \div 64), 128 + (c % 64)>>)
            \o Utf8Encode(Tail(text))

(* toString('utf-8'): a byte that starts no well-formed sequence gives U+FFFD *)
RECURSIVE Utf8Decode(_)
Utf8Decode(bytes) ==
    IF bytes = <<>> THEN <<>>
    ELSE LET b == Head(bytes)
         IN IF b < 128 THEN <<b>> \o Utf8Decode(Tail(bytes))
            ELSE IF /\ b >= 194 /\ b <= 223 /\ Len(bytes) >= 2
                    /\ bytes[2] >= 128 /\ bytes[2] <= 191
                 THEN <<(b - 192) * 64 + (bytes[2] - 128)>> \o Utf8Decode(Tail(Tail(bytes)))
                 ELSE <<65533>> \o Utf8Decode(Tail(bytes))

(* DecodeEnvelope that never decodes the body *)
DecodeEnvelope_Verbatim(_payload) ==
    [body |-> _payload.body, headers |-> EmptyMap, statusCode |-> _payload.statusCode]

(* lines 186-199: the response made of a parsed envelope *)
DecodeEnvelope(_payload) ==
    IF IsDefined(_payload.isBase64Encoded) /\ Val(_payload.isBase64Encoded)
    THEN [body |-> Utf8Decode(Base64Decode(_payload.body)),
          headers |-> EmptyMap,
          statusCode |-> _payload.statusCode]
    ELSE [body |-> _payload.body,
          headers |-> EmptyMap,
          statusCode |-> _payload.statusCode]

(* Texts: "hello", "", "a", "hi", "abc", "hé", and "aGVsbG8=" *)
Hello == <<104, 101, 108, 108, 111>>
HelloB64 == <<97, 71, 86, 115, 98, 71, 56, 61>>
Texts == {Hello, <<>>, <<97>>, <<104, 105>>, <<97, 98, 99>>, <<104, 233>>, HelloB64}

Envelope(st, b, f) == [statusCode |-> st, body |-> b, isBase64Encoded |-> f]

(* What the emulator may answer to an invocation: the Payload parsed by line
   182. None is a Payload that is not JSON; an envelope that declares
   isBase64Encoded carries the base64 text of its function's output. *)
AllPayloads ==
    {None}
    \cup {Some(Envelope(st, Base64Encode(Utf8Encode(t)), Some(TRUE))) :
            st \in {200, 404}, t \in Texts}
    \cup {Some(Envelope(st, t, f)) :
            st \in {200, 404}, t \in Texts, f \in {None, Some(FALSE)}}

SessionPayloads ==
    {None, Some(Envelope(200, Base64Encode(Utf8Encode(Hello)), Some(TRUE)))}

HttpResponses == {[status |-> 200, body |-> Hello], [status |-> 404, body |-> <<>>]}

----------------------------------------------------------------------------
(* The invocations: sendRequest and sendApiGwRequest, lines 163-208 *)

MaxCalls == 2       \* at most this many invocations

Call(kind, pc, target, endpoint) ==
    [kind |-> kind, pc |-> pc, target |-> target, endpoint |-> endpoint,
     response |-> None, result |-> None]

(* The invocations that are in flight *)
InFlight == {i \in 1..Len(calls) : calls[i].pc = "sent"}

(* An emulator process listens at the endpoint the call went to *)
Served(i) == \E pr \in procs : Endpoint(pr.host, pr.port) = calls[i].endpoint

(* CallFails that rejects every invocation in flight *)
CallFails_AllInFlight(i) ==
    [j \in 1..Len(calls) |->
       IF calls[j].pc = "sent" THEN [calls[j] EXCEPT !.pc = "failed"] ELSE calls[j]]

(* The call fails: its promise rejects *)
CallFails(i) == [calls EXCEPT ![i].pc = "failed"]

(* The call completes with a result made of the response it was given *)
CallCompletes(i, response, result) ==
    [calls EXCEPT ![i].pc = "done", ![i].response = Some(response),
                  ![i].result = Some(result)]

(* The function names a caller may pass: those of the mapping, and another *)
FunctionNames == Range(mapping) \cup {"fn-unknown"}
Paths == {"/hello"}

(* lines 163-179: sendRequest is called; client.invoke throws when client is
   undefined, otherwise the request goes to the client's endpoint *)
sendRequest_call(limit) ==
    /\ Generated
    /\ Len(calls) < limit
    /\ \E functionName \in FunctionNames :
         calls' = Append(calls,
                    IF IsDefined(client)
                    THEN Call("sendRequest", "sent", functionName, Val(client).endpoint)
                    ELSE Call("sendRequest", "failed", functionName, "none"))
    /\ UNCHANGED <<genVars, workdir, sessVars, procVars, lifeVars>>

(* lines 180-200: the emulator answers the invocation of a function of the
   template; the Payload is parsed (which throws when it is not JSON) and
   the envelope decoded *)
sendRequest_then(i, payloads) ==
    /\ i \in InFlight
    /\ calls[i].kind = "sendRequest"
    /\ calls[i].target \in DOMAIN Resources
    /\ Served(i)
    /\ \E payload \in payloads :
         calls' = IF IsDefined(payload)
                  THEN CallCompletes(i, payload, DecodeEnvelope(Val(payload)))
                  ELSE [CallFails(i) EXCEPT ![i].response = Some(payload)]
    /\ UNCHANGED <<genVars, workdir, sessVars, procVars, lifeVars>>

(* lines 173-179: the invocation rejects: the emulator cannot be reached, or
   it knows no function of that name *)
invoke_rejects(i) ==
    /\ i \in InFlight
    /\ calls[i].kind = "sendRequest"
    /\ calls' = CallFails(i)
    /\ UNCHANGED <<genVars, workdir, sessVars, procVars, lifeVars>>

(* `${host}` and `${port}` of line 207 *)
StrOf(o) == IF IsDefined(o) THEN Val(o) ELSE "undefined"
NumStrOf(o) == IF IsDefined(o) THEN ToString(Val(o)) ELSE "undefined"

(* lines 203-208: sendApiGwRequest is called: the request goes to the host
   and port of the moment *)
sendApiGwRequest_call(limit) ==
    /\ Generated
    /\ Len(calls) < limit
    /\ \E path \in Paths :
         calls' = Append(calls, Call("sendApiGwRequest", "sent", path,
                                     "http://" \o StrOf(host) \o ":" \o NumStrOf(port)))
    /\ UNCHANGED <<genVars, workdir, sessVars, procVars, lifeVars>>

(* line 207: fetch resolves with the response of the emulator *)
fetch_resolves(i) ==
    /\ i \in InFlight
    /\ calls[i].kind = "sendApiGwRequest"
    /\ Served(i)
    /\ \E response \in HttpResponses :
         calls' = CallCompletes(i, response, response)
    /\ UNCHANGED <<genVars, workdir, sessVars, procVars, lifeVars>>

(* line 207: fetch rejects *)
fetch_rejects(i) ==
    /\ i \in InFlight
    /\ calls[i].kind = "sendApiGwRequest"
    /\ calls' = CallFails(i)
    /\ UNCHANGED <<genVars, workdir, sessVars, procVars, lifeVars>>

----------------------------------------------------------------------------
(* The specifications *)

SessionInputs ==
    {<<Entry(KeyNames[1], Lambda("index.handler", Some("/hello"), None, Some("GET"), None))>>,
     <<Entry(KeyNames[1], Lambda("index.handler", Some("/hello"), None, Some("GET"), None)),
       Entry(KeyNames[2], Lambda("app.main", None, Some(RoutesOf(1)), None, Some(256)))>>}

Init ==
    /\ lambdas \in SessionInputs
    /\ cliOptions \in CliOptions
    /\ GenStart

(* The life of a session: generateSAM, then calls of start() and stop() in
   any order *)
Next ==
    \/ UnpackLambda
    \/ UnpackFails
    \/ WriteTemplate
    \/ start_call(MaxStarts)
    \/ getPort_resolves
    \/ getPort_rejects
    \/ createSAMLocal_resolves
    \/ createSAMLocal_rejects
    \/ stop_call(MaxStops)
    \/ SAM_kill_resolves
    \/ SAM_kill_rejects
    \/ stop_remove
    \/ removeCallback_throws

Spec == Init /\ [][Next]_vars

(* A session that is started and stopped at most once, and the invocations
   of it, before, while and after it runs *)
NextCalls ==
    \/ UnpackLambda
    \/ UnpackFails
    \/ WriteTemplate
    \/ start_call(1)
    \/ getPort_resolves
    \/ getPort_rejects
    \/ createSAMLocal_resolves
    \/ createSAMLocal_rejects
    \/ stop_call(1)
    \/ SAM_kill_resolves
    \/ SAM_kill_rejects
    \/ stop_remove
    \/ removeCallback_throws
    \/ sendRequest_call(MaxCalls)
    \/ sendApiGwRequest_call(MaxCalls)
    \/ \E i \in 1..Len(calls) : sendRequest_then(i, SessionPayloads)
    \/ \E i \in 1..Len(calls) : invoke_rejects(i)
    \/ \E i \in 1..Len(calls) : fetch_resolves(i)
    \/ \E i \in 1..Len(calls) : fetch_rejects(i)

InitCalls ==
    /\ lambdas = <<Entry(KeyNames[1], Lambda("index.handler", Some("/hello"), None, Some("GET"), None))>>
    /\ cliOptions \in CliOptions
    /\ GenStart

SpecCalls == InitCalls /\ [][NextCalls]_vars

(* One sendRequest of a running session, with every answer of the emulator *)
InitDecode ==
    /\ lambdas \in SessionInputs
    /\ cliOptions = NoOptions
    /\ GenStart

NextDecode ==
    \/ UnpackLambda
    \/ WriteTemplate
    \/ start_call(1)
    \/ getPort_resolves
    \/ createSAMLocal_resolves
    \/ sendRequest_call(1)
    \/ \E i \in 1..Len(calls) : sendRequest_then(i, AllPayloads)
    \/ \E i \in 1..Len(calls) : invoke_rejects(i)

SpecDecode == InitDecode /\ [][NextDecode]_vars

----------------------------------------------------------------------------
(* Properties of the generated mapping and template *)

InputKeys == {lambdas[i].key : i \in 1..Len(lambdas)}
LambdaOf(k) == lambdas[CHOOSE i \in 1..Len(lambdas) : lambdas[i].key = k].lambda
Template == Val(workdir.template)

(* C1: after generateSAM completes, the keys of the mapping are exactly the
   input keys prefixed with "/", and two different keys never map to the same
   identifier. *)
C1_MappingExactAndInjective ==
    Generated =>
        /\ DOMAIN mapping = {"/" \o k : k \in InputKeys}
        /\ \A a, b \in DOMAIN mapping : a # b => mapping[a] # mapping[b]

(* C2: after generateSAM completes, Resources has one entry per input lambda:
   as many entries as input keys, and for every key k the entry under
   mapping["/" + k] has Description k and Handler "<identifier>/<handler>". *)
C2_OneResourcePerLambda ==
    Generated =>
        /\ Cardinality(DOMAIN Resources) = Len(lambdas)
        /\ \A k \in InputKeys :
             LET id == mapping["/" \o k]
             IN /\ id \in DOMAIN Resources
                /\ Resources[id].Properties.Description = k
                /\ Resources[id].Properties.Handler = id \o "/" \o LambdaOf(k).handler

(* C3: the Events of a lambda's resource follow its routes: a single route
   (any string, the empty one too) gives exactly the event Api with that
   Path; otherwise a routes mapping of size N gives N events named after its
   keys, each with the Path of its entry; otherwise there are no events.
   Stated of every resource of the template, which belongs to the lambda
   named by its Description. *)
C3_EventsFollowRoutes ==
    Generated =>
        \A id \in DOMAIN Resources :
            LET Events == Resources[id].Properties.Events
                l == LambdaOf(Resources[id].Properties.Description)
            IN IF IsDefined(l.route)
               THEN /\ DOMAIN Events = {"Api"}
                    /\ Events["Api"].Properties.Path = Val(l.route)
               ELSE IF IsDefined(l.routes)
                    THEN /\ DOMAIN Events = DOMAIN Val(l.routes)
                         /\ Cardinality(DOMAIN Events) = Cardinality(DOMAIN Val(l.routes))
                         /\ \A rk \in DOMAIN Events :
                              Events[rk].Properties.Path = Val(l.routes)[rk]
                    ELSE DOMAIN Events = {}

(* C4: in every template, built or written, every event has TimeoutInMillis
   29000 and every resource has Timeout 29, so an event's timeout is 1000
   times its function's, whatever the lambdas' fields are. *)
TimeoutsFixed(res) ==
    \A id \in DOMAIN res :
        /\ res[id].Properties.Timeout = 29
        /\ \A e \in DOMAIN res[id].Properties.Events :
             /\ res[id].Properties.Events[e].Properties.TimeoutInMillis = 29000
             /\ res[id].Properties.Events[e].Properties.TimeoutInMillis
                  = 1000 * res[id].Properties.Timeout

C4_TimeoutsFixed ==
    /\ TimeoutsFixed(Resources)
    /\ IsDefined(workdir.template) => TimeoutsFixed(Template)

(* C4's case: a written template with a resource of several events, and one
   whose lambda sets method and memorySize. *)
C4_Witness ==
    /\ Generated
    /\ \E id \in DOMAIN Template :
         Cardinality(DOMAIN Template[id].Properties.Events) >= 2
    /\ \E id \in DOMAIN Template :
         /\ Template[id].Properties.MemorySize = 512
         /\ IsDefined(LambdaOf(Template[id].Properties.Description).method)

----------------------------------------------------------------------------
(* Properties of sendRequest's decoding *)

Done(i) == calls[i].pc = "done"
EnvelopeOf(i) == Val(Val(calls[i].response))
ResultOf(i) == Val(calls[i].result)

(* C5: of every envelope given to sendRequest: when it declares
   isBase64Encoded, the body returned is the text whose base64 form is the
   envelope's body; otherwise the body returned is the envelope's body
   unchanged; the statusCode is the envelope's and the headers are empty. *)
C5_EnvelopeDecoding ==
    \A i \in 1..Len(calls) :
        (calls[i].kind = "sendRequest" /\ Done(i)) =>
            /\ (EnvelopeOf(i).isBase64Encoded = Some(TRUE)
                  => Base64Encode(Utf8Encode(ResultOf(i).body)) = EnvelopeOf(i).body)
            /\ (EnvelopeOf(i).isBase64Encoded # Some(TRUE)
                  => ResultOf(i).body = EnvelopeOf(i).body)
            /\ ResultOf(i).statusCode = EnvelopeOf(i).statusCode
            /\ DOMAIN ResultOf(i).headers = {}

(* C5's case: the envelope with body "aGVsbG8=" and isBase64Encoded was
   given to a sendRequest, which returned "hello". *)
C5_Witness ==
    \E i \in 1..Len(calls) :
        /\ calls[i].kind = "sendRequest" /\ Done(i)
        /\ EnvelopeOf(i).isBase64Encoded = Some(TRUE)
        /\ EnvelopeOf(i).body = <<97, 71, 86, 115, 98, 71, 56, 61>>
        /\ ResultOf(i).body = <<104, 101, 108, 108, 111>>

----------------------------------------------------------------------------
(* Properties of start and stop *)

Running(pid) == \E pr \in procs : pr.pid = pid
StartFailed == startCall.result \in {"getPortFailed", "launchFailed"}

(* C6: when a stop() called after a completed start() completes, the working
   directory does not exist and the process of the handle does not run; and
   the directory is removed only once the process killed has exited. *)
C6_StopKillsThenRemoves ==
    /\ [](stopCall.result = "ok" =>
            ~workdir.exists /\ ~Running(Val(stopCall.target)))
    /\ [][(workdir.exists /\ ~workdir'.exists) =>
            (IsDefined(stopCall.target) /\ ~Running(Val(stopCall.target)))]_vars

(* C6's case: start() completed, then stop() completed. *)
C6_Witness ==
    /\ startCall.result = "ok"
    /\ stopCall.result = "ok"
    /\ launched = 1
    /\ ~workdir.exists
    /\ procs = {}

(* C7, as claimed: when start() fails, host, port, region, the process
   handle and the client are as before the call. *)
C7_FailedStartChangesNothing ==
    StartFailed => Session = Val(startCall.pre)

(* C7, amended: when start() fails, the process handle and the client are as
   before the call and no process was launched; host, port and region are
   as before the call when it is the port lookup that failed. *)
C7_FailedStartKeepsHandleAndClient ==
    StartFailed =>
        /\ SAM = Val(startCall.pre).SAM
        /\ client = Val(startCall.pre).client
        /\ launched = Val(startCall.pre).launched
        /\ (startCall.result = "getPortFailed" =>
              /\ port = Val(startCall.pre).port
              /\ host = Val(startCall.pre).host
              /\ region = Val(startCall.pre).region)

(* C7's case: the launch failed, after port, host and region were assigned. *)
C7_Witness ==
    /\ startCall.result = "launchFailed"
    /\ Val(startCall.pre).port = None
    /\ IsDefined(port) /\ IsDefined(host) /\ IsDefined(region)
    /\ SAM = None /\ client = None

(* C9, as claimed: whatever the calls of start() and stop(), at most one
   emulator process of the session runs at any moment, and once stop() has
   completed none is launched again. *)
C9_LinearLifecycle ==
    /\ [](Cardinality(procs) <= 1)
    /\ [][stopCall.done >= 1 => launched' = launched]_vars

(* C9, amended: as long as start() was called at most once, at most one
   emulator process of the session runs, and none does once stop() has
   completed. *)
C9_SingleStartLifecycle ==
    startCall.n <= 1 =>
        /\ Cardinality(procs) <= 1
        /\ (stopCall.done >= 1 => procs = {})

(* C9's case: one start(), which completed, then a stop() that completed. *)
C9_Witness ==
    /\ startCall.n = 1
    /\ launched = 1
    /\ stopCall.done = 1
    /\ procs = {}

----------------------------------------------------------------------------
(* Properties of the invocations *)

(* The invocation i fails in this step *)
FailsNow(i) == calls'[i].pc = "failed" /\ (i > Len(calls) \/ calls[i].pc # "failed")

(* C8: an invocation that fails changes neither the session (host, port,
   region, handle, client, mapping, working directory, processes) nor any
   other invocation; and an invocation that completes has the result of the
   response given to it. *)
C8_FailureIsolated ==
    /\ [][\A i \in 1..Len(calls') :
            FailsNow(i) =>
                /\ UNCHANGED <<sessVars, mapping, Resources, workdir, procs>>
                /\ \A j \in 1..Len(calls) : j # i => calls'[j] = calls[j]]_vars
    /\ [](\A i \in 1..Len(calls) :
            Done(i) =>
                IF calls[i].kind = "sendRequest"
                THEN ResultOf(i).statusCode = EnvelopeOf(i).statusCode
                ELSE ResultOf(i) = Val(calls[i].response))

(* C8's case: the second invocation failed on a Payload that is not JSON
   while the first, sent to the same endpoint, is still in flight. *)
C8_Witness ==
    /\ Len(calls) = 2
    /\ calls[1].pc = "sent"
    /\ calls[2].pc = "failed"
    /\ calls[2].response = Some(None)
    /\ calls[1].endpoint = calls[2].endpoint

(* C10: the template is written once, by generateSAM, before any call of the
   session; afterwards no step changes the mapping or the template, and the
   template file is written no more (stop() removes it with the directory). *)
C10_FixedAtGeneration ==
    /\ [](Generated => workdir.writes = 1)
    /\ [](~Generated =>
            /\ workdir.writes = 0
            /\ startCall.n = 0 /\ stopCall.n = 0 /\ calls = <<>>)
    /\ [][Generated =>
            /\ mapping' = mapping
            /\ Resources' = Resources
            /\ workdir'.writes = workdir.writes
            /\ workdir'.template \in {workdir.template, None}]_vars

(* C10's case: the session was started and stopped, and both kinds of
   invocation completed. *)
C10_Witness ==
    /\ Generated
    /\ startCall.result = "ok"
    /\ stopCall.result = "ok"
    /\ DOMAIN mapping = {"/greet"}
    /\ \E i, j \in 1..Len(calls) :
         /\ calls[i].kind = "sendRequest" /\ Done(i)
         /\ calls[j].kind = "sendApiGwRequest" /\ Done(j)

=============================================================================
